---- MODULE Spec2Model ----
(***************************************************************************)
(* Job orchestration core of the invoice agent (src/main.py): the job      *)
(* table, the payment-subscription table, and the handlers start_job,      *)
(* handle_payment_status (the payment callback), get_status and            *)
(* provide_input, with the pipeline of execute_crew_task.                  *)
(*                                                                         *)
(* All handlers are coroutines of one asyncio event loop: a handler runs   *)
(* without interruption until it awaits something that really suspends.    *)
(* The only such point inside handle_payment_status is the awaited         *)
(* complete_payment call (line 272); provide_input awaits nothing.         *)
(***************************************************************************)
EXTENDS Integers, Sequences, FiniteSets, TLC

\* ------------------------------------------------------------------ bounds
MaxJobs == 2
MaxCallbacks == 2
MaxPatched == 1
\* The longest list of a structured record.
MaxItems == 2

JobIds == 1..MaxJobs

\* ------------------------------------------------------------- value space
\* Python's None, and a key that a dict does not hold (reading it: KeyError).
None == "<None>"
Missing == "<missing>"

\* The invoice fields of StartJobRequest / ProvideInputRequest the model
\* carries (the source has 19 of them, all handled by the same loop).
InvoiceFields == {"sender_country", "recipient_country", "due_date"}
\* model_dump() of a ProvideInputRequest also yields the key job_id, first.
DictKeys == InvoiceFields \cup {"job_id"}

Countries == {"Ireland", "Switzerland"}
\* The value the code treats as a placeholder (line 451), and the empty string.
Placeholder == "string"
Empty == ""
\* The completion signal of the provide-input operation: the loop of lines
\* 450-452 has no case for it and stores it like any other string.
CompletionSignal == "completed"
ReqValues == {Placeholder, Empty, "Ireland", CompletionSignal}

StartRequests ==
    {r \in [InvoiceFields -> Countries \cup {"02/05/25"}] :
        /\ r["sender_country"] = "Ireland"
        /\ r["recipient_country"] \in Countries
        /\ r["due_date"] = "02/05/25"}

\* Requests to provide_input: at most MaxPatched fields are not the
\* placeholder.
ProvideRequests ==
    {r \in [InvoiceFields -> ReqValues] :
        Cardinality({k \in InvoiceFields : r[k] # Placeholder}) <= MaxPatched}

EmptyDict == [k \in DictKeys |-> Missing]

\* job["invoice_info"]: None, or the invoice dictionary.
NoInfo == [kind |-> "none", d |-> EmptyDict]
DictInfo(d) == [kind |-> "dict", d |-> d]

\* The key under which a job id is stored as a dict value.
JobIdStr(j) == IF j = 1 THEN "job-1" ELSE IF j = 2 THEN "job-2" ELSE "job-n"

\* Status strings the code writes.
AwaitingPayment == "awaiting payment"
Running == "running"
Completed == "completed"
Failed == "failed"
Success == "Success"

\* Outcomes of the external collaborators, chosen by the environment: all
\* calls succeed, or exactly one of them deviates.
AllOk ==
    [search |-> "ok", organic |-> 1, clean |-> "ok", structure |-> "ok",
     lens |-> "equal", render |-> "ok", complete |-> "ok"]

Oracles ==
    {AllOk,
     [AllOk EXCEPT !.search = "raise"], [AllOk EXCEPT !.organic = 0],
     [AllOk EXCEPT !.clean = "error"], [AllOk EXCEPT !.structure = "error"],
     [AllOk EXCEPT !.lens = "short"], [AllOk EXCEPT !.lens = "long"],
     [AllOk EXCEPT !.render = "raise"], [AllOk EXCEPT !.complete = "raise"]}

GateAnswers == {"pending", "completed", "ValueError", "Exception"}

\* ---------------------------------------------------------------- pipeline
\* Calls made to the collaborators, counted per job.
ZeroCalls == [search |-> 0, queries |-> 0, clean |-> 0, structure |-> 0, render |-> 0]

AddCalls(a, b) ==
    [search |-> a.search + b.search, queries |-> a.queries + b.queries,
     clean |-> a.clean + b.clean, structure |-> a.structure + b.structure,
     render |-> a.render + b.render]

ErrNoAttr(kind) ==
    IF kind = "none" THEN "'NoneType' object has no attribute 'sender'"
    ELSE "'dict' object has no attribute 'sender'"
ErrUnbound == "cannot access local variable 'sender_links'"
ErrSearch == "search failed"
ErrUnpack == "not enough values to unpack (expected 2, got 1)"
ErrIndex == "list index out of range"
ErrRender == "render failed"
ErrComplete == "complete_payment failed"
ErrLoggerKw == "Invoice_Agents.__init__() got an unexpected keyword argument 'logger'"
ErrSubscript == "'NoneType' object does not support item assignment"
ErrKeyJob(j) == JobIdStr(j)
\* The message run_analysis puts into the dict it returns on a failure.
ErrStructure == "Error during analysis"

\* search_invoice_regulations: one query when the countries are equal, else
\* two, sender first; the scraped content is the sequence of the countries
\* whose result links were scraped.
search_invoice_regulations(sender_country, recipient_country, o) ==
    IF sender_country = recipient_country
    THEN IF o.search = "raise"
         THEN [raised |-> TRUE, err |-> ErrSearch, content |-> <<>>, queries |-> 1]
         ELSE IF o.organic > 0
              THEN [raised |-> TRUE, err |-> ErrUnbound, content |-> <<>>, queries |-> 1]
              ELSE [raised |-> FALSE, err |-> None, content |-> <<>>, queries |-> 1]
    ELSE IF o.search = "raise"
         THEN [raised |-> TRUE, err |-> ErrSearch, content |-> <<>>, queries |-> 1]
         ELSE [raised |-> FALSE, err |-> None,
               content |-> IF o.organic > 0
                           THEN <<sender_country, recipient_country>>
                           ELSE <<>>,
               queries |-> 2]

\* Cleaning_Agents.clean_Data: the cleaned text, or a dict {"error": ...};
\* it never raises.
clean_Data(content, o) ==
    IF o.clean = "ok" THEN [kind |-> "text", src |-> content]
    ELSE [kind |-> "error", src |-> content]

\* Invoice_Agents.__init__(self, invoice_text, legal_data) takes no keyword
\* logger: a call that passes one raises TypeError.
Invoice_Agents(withLogger) ==
    IF withLogger THEN [raised |-> TRUE, err |-> ErrLoggerKw]
    ELSE [raised |-> FALSE, err |-> None]

\* Invoice_Agents.run_analysis: the pair (record, analysis), or a dict
\* {"error": ...}; it never raises.
run_analysis(o) ==
    IF o.structure = "ok" THEN [kind |-> "pair", lens |-> o.lens]
    ELSE [kind |-> "error", lens |-> o.lens]

\* export_invoice_to_pdf: indexes quantities/unit_prices/unit_totals by the
\* positions of transactions.
export_invoice_to_pdf(record, o) ==
    IF record.lens = "short" THEN [raised |-> TRUE, err |-> ErrIndex, file |-> None]
    ELSE IF o.render = "raise" THEN [raised |-> TRUE, err |-> ErrRender, file |-> None]
    ELSE [raised |-> FALSE, err |-> None, file |-> "invoice.pdf"]

\* The lists of a structured record that the renderer indexes (export.py
\* lines 151-155), each given by its length.
StructuredRecords ==
    [transactions : 0..MaxItems, quantities : 0..MaxItems,
     unit_prices : 0..MaxItems, unit_totals : 0..MaxItems]

\* How the lengths of a record's lists compare: all equal; some indexed list
\* shorter than transactions (the loop of line 151 runs past its end); or
\* none shorter and some longer.
LensOf(r) ==
    IF r.quantities = r.transactions /\ r.unit_prices = r.transactions
       /\ r.unit_totals = r.transactions
    THEN "equal"
    ELSE IF r.quantities < r.transactions \/ r.unit_prices < r.transactions
            \/ r.unit_totals < r.transactions
    THEN "short"
    ELSE "long"

\* main.py lines 163-168 and 487-489: the value run_analysis returned is
\* unpacked into two names and the first is handed to export_invoice_to_pdf.
\* render counts the calls of the renderer.
RenderStructured(a, o) ==
    IF a.kind = "error"
    THEN [raised |-> TRUE, err |-> ErrUnpack, file |-> None, render |-> 0]
    ELSE LET pdf == export_invoice_to_pdf(a, o) IN
         [raised |-> pdf.raised, err |-> pdf.err, file |-> pdf.file, render |-> 1]

Raise(e, c) ==
    [raised |-> TRUE, err |-> e, result |-> None, legal |-> None,
     dict |-> EmptyDict, calls |-> c]

\* execute_crew_task(data): reads the attributes of data, then runs
\* lookup, cleaning, structuring and rendering in this order.
execute_crew_task_RenderFirst(data, o) ==
    IF data.kind # "request" THEN Raise(ErrNoAttr(data.kind), ZeroCalls)
    ELSE Raise(export_invoice_to_pdf(run_analysis(o), o).err,
               [ZeroCalls EXCEPT !.render = 1])
execute_crew_task(data, o) ==
    IF data.kind # "request" THEN Raise(ErrNoAttr(data.kind), ZeroCalls)
    ELSE
    LET invoice_dictionary == [k \in DictKeys |->
                                 IF k \in InvoiceFields THEN data.d[k] ELSE Missing]
        s == search_invoice_regulations(data.d["sender_country"],
                                        data.d["recipient_country"], o)
        c1 == [ZeroCalls EXCEPT !.search = 1, !.queries = s.queries]
        legal_info == clean_Data(s.content, o)
        c2 == [c1 EXCEPT !.clean = 1]
        invoice_crew == Invoice_Agents(TRUE)
        a == run_analysis(o)
        c3 == [c2 EXCEPT !.structure = 1]
        pdf == export_invoice_to_pdf(a, o)
        c4 == [c3 EXCEPT !.render = 1]
    IN  IF s.raised THEN Raise(s.err, c1)
        ELSE IF invoice_crew.raised THEN Raise(invoice_crew.err, c2)
        ELSE IF a.kind = "error" THEN Raise(ErrUnpack, c3)
        ELSE IF pdf.raised THEN Raise(pdf.err, c4)
        ELSE [raised |-> FALSE, err |-> None, result |-> pdf.file,
              legal |-> "analysis", dict |-> invoice_dictionary, calls |-> c4]

\* ------------------------------------------------------------------- state
VARIABLES
    given,              \* a request and collaborator outcomes, for one run
    got,                \* what the pipeline functions made of them
    structured,         \* a value returned by run_analysis, about to be rendered
    rendered,           \* what lines 163-168 made of it
    jobs,               \* the dict jobs: job id -> job record
    payment_instances,  \* the keys of the dict payment_instances
    monitoring,         \* jobs whose status-monitoring task is running
    subscribed,         \* jobs whose payment_callback was handed to the gate
    cb,                 \* per job, the invocations of handle_payment_status
    calls,              \* per job, the collaborator calls made for it
    torn,               \* per job, the number of stop_status_monitoring calls
    last                \* the outcome of the last handler that returned

vars == <<given, got, structured, rendered, jobs, payment_instances, monitoring, subscribed, cb,
          calls, torn, last>>

\* The record start_job stores (lines 211-220); payment_status, analysis and
\* error are keys the record does not hold yet.
NewJob_NoPaymentId(j, data) ==
    [status |-> AwaitingPayment, payment_id |-> 0, result |-> None,
     invoice_info |-> NoInfo, input_data |-> data, legal_analysis |-> None,
     payment_status |-> Missing, analysis |-> Missing, error |-> Missing]
NewJob(j, data) ==
    [status |-> AwaitingPayment, payment_id |-> j, result |-> None,
     invoice_info |-> NoInfo, input_data |-> data, legal_analysis |-> None,
     payment_status |-> Missing, analysis |-> Missing, error |-> Missing]

Resp(op, j, code, status, pstat, result, analysis) ==
    [op |-> op, job |-> j, code |-> code, status |-> status,
     payment_status |-> pstat, result |-> result, analysis |-> analysis,
     payment_id |-> 0]

NoTask == [pc |-> "done", entry |-> None, result |-> None, legal |-> None,
           dict |-> EmptyDict]

\* The event loop is free: no coroutine is between two of its own statements.
\* A callback suspended in complete_payment, or finished, does not hold it.
\* (Handlers declared with def instead of async def run in worker threads and
\* interleave anywhere.)
LoopFree_Threads == TRUE
LoopFree ==
    \A j \in JobIds : \A k \in 1..Len(cb[j]) :
        cb[j][k].pc \in {"complete_payment", "done"}

\* No structured record is in hand and nothing has been rendered.
NoRecord ==
    [record |-> [transactions |-> 0, quantities |-> 0, unit_prices |-> 0,
                 unit_totals |-> 0],
     structure |-> "ok", render |-> "ok"]
NotRendered == [raised |-> FALSE, err |-> None, file |-> None, render |-> 0]

\* The request of one run of the pipeline, as the function of its fields.
RequestOf(g) ==
    [k \in InvoiceFields |->
        IF k = "sender_country" THEN g.sender
        ELSE IF k = "recipient_country" THEN g.recipient
        ELSE "02/05/25"]

\* Nothing given, and no pipeline function applied yet: the lookup has made
\* no query, the crew task no call, and the handler still waits at line 272.
NoneGiven == [sender |-> "Ireland", recipient |-> "Ireland", o |-> AllOk]
NoSearch == [raised |-> FALSE, err |-> None, content |-> <<>>, queries |-> 0]
NoCrew ==
    [raised |-> FALSE, err |-> None, result |-> None, legal |-> None,
     dict |-> EmptyDict, calls |-> ZeroCalls]
NoCompletion == [status |-> Running, result |-> None, error |-> Missing]
NothingGot == [search |-> NoSearch, task |-> NoCrew, completion |-> NoCompletion]

Init ==
    /\ given = NoneGiven
    /\ got = NothingGot
    /\ structured = NoRecord
    /\ rendered = NotRendered
    /\ jobs = <<>>
    /\ payment_instances = {}
    /\ monitoring = {}
    /\ subscribed = {}
    /\ cb = [j \in JobIds |-> <<>>]
    /\ calls = [j \in JobIds |-> ZeroCalls]
    /\ torn = [j \in JobIds |-> 0]
    /\ last = Resp("none", 0, 0, None, None, None, None)

\* ---------------------------------------------------------------- start_job
\* uuid4 gives an id no job has; the gate's blockchainIdentifier is fresh too.
FreshJobId_Reused == CHOOSE j \in JobIds : \A i \in JobIds : j <= i
FreshJobId == CHOOSE j \in JobIds : j \notin DOMAIN jobs /\ \A i \in JobIds : i < j => i \in DOMAIN jobs

start_job(data, pay, mon) ==
    /\ LoopFree
    /\ Cardinality(DOMAIN jobs) < MaxJobs
    /\ LET j == FreshJobId IN
       IF pay = "raise"
       THEN \* create_payment_request raised: except branch, HTTP 400
            /\ last' = Resp("start_job", 0, 400, None, None, None, None)
            /\ UNCHANGED <<jobs, payment_instances, monitoring, subscribed>>
       ELSE /\ jobs' = [x \in DOMAIN jobs \cup {j} |->
                          IF x = j THEN NewJob(j, data) ELSE jobs[x]]
            /\ payment_instances' = payment_instances \cup {j}
            /\ IF mon = "ok"
               THEN /\ monitoring' = monitoring \cup {j}
                    /\ subscribed' = subscribed \cup {j}
                    /\ last' = [Resp("start_job", j, 200, "success", None, None, None)
                                  EXCEPT !.payment_id = j]
               ELSE \* start_status_monitoring raised: except branch, HTTP 400
                    /\ UNCHANGED <<monitoring, subscribed>>
                    /\ last' = Resp("start_job", 0, 400, None, None, None, None)
    /\ UNCHANGED <<cb, calls, torn, structured, rendered, given, got>>

\* ---------------------------------------------------- handle_payment_status
\* Lines 288-289 of the except branch.
Except_KeepsStatus(job, e) == [job EXCEPT !.error = e]
Except(job, e) == [job EXCEPT !.status = Failed, !.error = e]

\* The request object a job was started with, as execute_crew_task reads it.
AsRequest(data) ==
    [kind |-> "request",
     d |-> [k \in DictKeys |-> IF k \in InvoiceFields THEN data[k] ELSE Missing]]

\* Line 264 hands jobs[job_id]["invoice_info"] to execute_crew_task.
CrewTaskArgument_InputData(job) == AsRequest(job.input_data)
CrewTaskArgument(job) == job.invoice_info

\* Lines 283 and 292: the subscription is stopped and deleted only if the
\* job still has an entry in payment_instances.
ShouldTearDown_Always(inPI) == TRUE
ShouldTearDown(inPI) == inPI

\* One uninterrupted stretch of handle_payment_status for a job record:
\* from after line 260 up to the awaited complete_payment, or from the
\* return of complete_payment to the end. teardown says whether
\* stop_status_monitoring is called and the subscription entry deleted.
HandleNext(j, job, task, inPI, o) ==
    IF task.pc = "execute"
    THEN LET out == execute_crew_task(CrewTaskArgument(job), o) IN
         IF out.raised
         THEN [job |-> Except(job, out.err), task |-> NoTask,
               teardown |-> ShouldTearDown(inPI), calls |-> out.calls]
         ELSE IF ~inPI
         THEN [job |-> Except(job, ErrKeyJob(j)), task |-> NoTask,
               teardown |-> FALSE, calls |-> out.calls]
         ELSE [job |-> job,
               task |-> [task EXCEPT !.pc = "complete_payment",
                                     !.result = out.result,
                                     !.legal = out.legal, !.dict = out.dict],
               teardown |-> FALSE, calls |-> out.calls]
    ELSE IF o.complete = "ok"
         THEN [job |-> [job EXCEPT !.status = Completed,
                                   !.payment_status = Completed,
                                   !.result = task.result,
                                   !.analysis = task.legal,
                                   !.invoice_info = DictInfo(task.dict)],
               task |-> NoTask, teardown |-> ShouldTearDown(inPI),
               calls |-> ZeroCalls]
         ELSE [job |-> Except(job, ErrComplete), task |-> NoTask,
               teardown |-> ShouldTearDown(inPI), calls |-> ZeroCalls]

\* The gate invokes payment_callback, which enters handle_payment_status:
\* line 260 sets the status to running. The gate is outside the program: it
\* may deliver the callback of a registered subscription more than once, also
\* after the job has become terminal (a duplicate callback).
payment_callback(j) ==
    /\ LoopFree
    /\ j \in subscribed
    /\ Len(cb[j]) < MaxCallbacks
    /\ jobs' = [jobs EXCEPT ![j].status = Running]
    /\ cb' = [cb EXCEPT ![j] = Append(@, [NoTask EXCEPT !.pc = "execute",
                                                       !.entry = jobs[j].status])]
    /\ UNCHANGED <<payment_instances, monitoring, subscribed, calls, torn, last,
                   structured, rendered, given, got>>

handle_payment_status(j, k, o) ==
    /\ k \in 1..Len(cb[j])
    /\ cb[j][k].pc # "done"
    /\ IF cb[j][k].pc = "execute" THEN TRUE ELSE LoopFree
    /\ LET n == HandleNext(j, jobs[j], cb[j][k], j \in payment_instances, o) IN
       /\ jobs' = [jobs EXCEPT ![j] = n.job]
       /\ cb' = [cb EXCEPT ![j][k] = [n.task EXCEPT !.entry = cb[j][k].entry]]
       /\ calls' = [calls EXCEPT ![j] = AddCalls(@, n.calls)]
       /\ payment_instances' = IF n.teardown THEN payment_instances \ {j}
                               ELSE payment_instances
       /\ monitoring' = IF n.teardown THEN monitoring \ {j} ELSE monitoring
       /\ torn' = IF n.teardown THEN [torn EXCEPT ![j] = @ + 1] ELSE torn
    /\ UNCHANGED <<subscribed, last, structured, rendered, given, got>>

\* --------------------------------------------------------------- get_status
\* What lines 310-319 store in job["payment_status"] for the gate's answer.
PaymentStatusOf_Swapped(ans) ==
    IF ans = "ValueError" THEN "error"
    ELSE IF ans = "Exception" THEN "unknown"
    ELSE ans
PaymentStatusOf(ans) ==
    IF ans = "ValueError" THEN "unknown"
    ELSE IF ans = "Exception" THEN "error"
    ELSE ans

\* Lines 308-319: the job record after the poll of the gate, made only while
\* the job has an entry in payment_instances.
PolledJob_CompletesJob(job, inPI, ans) ==
    IF inPI
    THEN [job EXCEPT !.payment_status = PaymentStatusOf(ans),
                     !.status = IF ans = "completed" THEN Completed ELSE @]
    ELSE job
PolledJob(job, inPI, ans) ==
    IF inPI THEN [job EXCEPT !.payment_status = PaymentStatusOf(ans)]
    ELSE job

get_status(j, ans) ==
    /\ LoopFree
    /\ IF j \notin DOMAIN jobs
       THEN /\ last' = Resp("get_status", j, 404, None, None, None, None)
            /\ UNCHANGED jobs
       ELSE LET job == PolledJob(jobs[j], j \in payment_instances, ans)
            IN  /\ jobs' = [jobs EXCEPT ![j] = job]
                /\ last' = IF job.payment_status = Missing
                           THEN \* KeyError 'payment_status' at line 324
                                Resp("get_status", j, 500, None, None, None, None)
                           ELSE Resp("get_status", j, 200, job.status,
                                     job.payment_status, job.result, None)
    /\ UNCHANGED <<payment_instances, monitoring, subscribed, cb, calls, torn,
                   structured, rendered, given, got>>

\* ------------------------------------------------------------ provide_input
\* Lines 447-452: every dumped value that is neither None nor "string" is
\* stored under its key, job_id included; on a None invoice_info the first
\* such store raises TypeError.
PatchInvoiceInfo_FromInput(job, j, req) ==
    LET d == IF job.invoice_info.kind = "none" THEN AsRequest(job.input_data).d
             ELSE job.invoice_info.d
    IN  [raised |-> FALSE,
         info |-> DictInfo([k \in DictKeys |->
                     IF k = "job_id" THEN JobIdStr(j)
                     ELSE IF req[k] \notin {None, Placeholder} THEN req[k]
                     ELSE d[k]])]
PatchInvoiceInfo(job, j, req) ==
    IF job.invoice_info.kind = "none"
    THEN [raised |-> TRUE, info |-> job.invoice_info]
    ELSE [raised |-> FALSE,
          info |-> DictInfo([k \in DictKeys |->
                      IF k = "job_id" THEN JobIdStr(j)
                      ELSE IF req[k] \notin {None, Placeholder} THEN req[k]
                      ELSE job.invoice_info.d[k]])]

\* The whole of provide_input for an existing job: the job record it leaves,
\* the collaborator calls it made and its outcome.
ProvideInputNext(j, job, req, o) ==
    LET p == PatchInvoiceInfo(job, j, req)
        patched == [job EXCEPT !.invoice_info = p.info]
        keyError == \E k \in InvoiceFields : p.info.d[k] = Missing
        invoice_crew == Invoice_Agents(FALSE)
        a == run_analysis(o)
        c1 == [ZeroCalls EXCEPT !.structure = 1]
        pdf == export_invoice_to_pdf(a, o)
        c2 == [c1 EXCEPT !.render = 1]
    IN  IF p.raised
        THEN [job |-> job, calls |-> ZeroCalls, code |-> 500, err |-> ErrSubscript,
              pdf |-> None, legal |-> None]
        ELSE IF keyError
        THEN [job |-> patched, calls |-> ZeroCalls, code |-> 500, err |-> "KeyError",
              pdf |-> None, legal |-> None]
        ELSE IF invoice_crew.raised
        THEN [job |-> patched, calls |-> ZeroCalls, code |-> 500,
              err |-> invoice_crew.err, pdf |-> None, legal |-> None]
        ELSE IF a.kind = "error"
        THEN [job |-> patched, calls |-> c1, code |-> 500, err |-> ErrUnpack,
              pdf |-> None, legal |-> None]
        ELSE IF pdf.raised
        THEN [job |-> patched, calls |-> c2, code |-> 500, err |-> pdf.err,
              pdf |-> None, legal |-> None]
        ELSE [job |-> [patched EXCEPT !.result = pdf.file, !.status = Success],
              calls |-> c2, code |-> 200, err |-> None,
              pdf |-> pdf.file, legal |-> "analysis"]

provide_input_NoJobCheck(j, req, o) ==
    /\ LoopFree
    /\ IF j \notin DOMAIN jobs
       THEN /\ last' = Resp("provide_input", j, 500, ErrKeyJob(j), None, None, None)
            /\ UNCHANGED <<jobs, calls>>
       ELSE LET n == ProvideInputNext(j, jobs[j], req, o) IN
            /\ jobs' = [jobs EXCEPT ![j] = n.job]
            /\ calls' = [calls EXCEPT ![j] = AddCalls(@, n.calls)]
            /\ last' = IF n.code = 200
                       THEN Resp("provide_input", j, 200, "awaiting input", None,
                                 n.pdf, n.legal)
                       ELSE Resp("provide_input", j, 500, n.err, None, None, None)
    /\ UNCHANGED <<payment_instances, monitoring, subscribed, cb, torn,
                   structured, rendered, given, got>>
provide_input(j, req, o) ==
    /\ LoopFree
    /\ IF j \notin DOMAIN jobs
       THEN /\ last' = Resp("provide_input", j, 200, "error", None, None, None)
            /\ UNCHANGED <<jobs, calls>>
       ELSE LET n == ProvideInputNext(j, jobs[j], req, o) IN
            /\ jobs' = [jobs EXCEPT ![j] = n.job]
            /\ calls' = [calls EXCEPT ![j] = AddCalls(@, n.calls)]
            /\ last' = IF n.code = 200
                       THEN Resp("provide_input", j, 200, "awaiting input", None,
                                 n.pdf, n.legal)
                       ELSE Resp("provide_input", j, 500, n.err, None, None, None)
    /\ UNCHANGED <<payment_instances, monitoring, subscribed, cb, torn,
                   structured, rendered, given, got>>

\* ------------------------------------------------------------ specification
Next ==
    \/ \E data \in StartRequests : \E pay \in {"ok", "raise"} :
         \E mon \in {"ok", "raise"} : start_job(data, pay, mon)
    \/ \E j \in JobIds : payment_callback(j)
    \/ \E j \in JobIds : \E k \in 1..MaxCallbacks : \E o \in Oracles :
         handle_payment_status(j, k, o)
    \/ \E j \in JobIds : \E ans \in GateAnswers : get_status(j, ans)
    \/ \E j \in JobIds : \E req \in ProvideRequests : \E o \in Oracles :
         provide_input(j, req, o)

Spec == Init /\ [][Next]_vars

\* ------------------------------------------------- the rendering step alone
\* What run_analysis may return and how the renderer's own calls end.
StructuredOutcomes ==
    [record : StructuredRecords, structure : {"ok", "error"}, render : {"ok", "raise"}]

\* The oracle under which run_analysis returns the outcome s.
OracleOf(s) ==
    [AllOk EXCEPT !.structure = s.structure, !.lens = LensOf(s.record),
                  !.render = s.render]

RenderInit ==
    /\ given = NoneGiven
    /\ got = NothingGot
    /\ structured \in StructuredOutcomes
    /\ rendered = NotRendered
    /\ jobs = <<>>
    /\ payment_instances = {}
    /\ monitoring = {}
    /\ subscribed = {}
    /\ cb = [j \in JobIds |-> <<>>]
    /\ calls = [j \in JobIds |-> ZeroCalls]
    /\ torn = [j \in JobIds |-> 0]
    /\ last = Resp("none", 0, 0, None, None, None, None)

\* Lines 163-168 applied to the value in hand.
render_structured ==
    /\ rendered = NotRendered
    /\ rendered' = RenderStructured(run_analysis(OracleOf(structured)),
                                    OracleOf(structured))
    /\ UNCHANGED <<structured, jobs, payment_instances, monitoring, subscribed, cb,
                   calls, torn, last, given, got>>

RenderNext == render_structured

RenderSpec == RenderInit /\ [][RenderNext]_vars

\* ------------------------------------------- the pipeline functions alone
\* Every combination of collaborator outcomes.
OracleSpace ==
    [search : {"ok", "raise"}, organic : {0, 1}, clean : {"ok", "error"},
     structure : {"ok", "error"}, lens : {"equal", "short", "long"},
     render : {"ok", "raise"}, complete : {"ok", "raise"}]

PipelineInputs == [sender : Countries, recipient : Countries, o : OracleSpace]

PipelineInit ==
    /\ given \in PipelineInputs
    /\ got = NothingGot
    /\ structured = NoRecord
    /\ rendered = NotRendered
    /\ jobs = <<>>
    /\ payment_instances = {}
    /\ monitoring = {}
    /\ subscribed = {}
    /\ cb = [j \in JobIds |-> <<>>]
    /\ calls = [j \in JobIds |-> ZeroCalls]
    /\ torn = [j \in JobIds |-> 0]
    /\ last = Resp("none", 0, 0, None, None, None, None)

\* search_invoice_regulations applied to the two countries.
run_search ==
    /\ got.search = NoSearch
    /\ got' = [got EXCEPT !.search =
                 search_invoice_regulations(given.sender, given.recipient, given.o)]
    /\ UNCHANGED <<given, structured, rendered, jobs, payment_instances, monitoring,
                   subscribed, cb, calls, torn, last>>

\* execute_crew_task applied to the request object.
run_crew_task ==
    /\ got.task = NoCrew
    /\ got' = [got EXCEPT !.task =
                 execute_crew_task(AsRequest(RequestOf(given)), given.o)]
    /\ UNCHANGED <<given, structured, rendered, jobs, payment_instances, monitoring,
                   subscribed, cb, calls, torn, last>>

\* Lines 272-289 of handle_payment_status applied to the values a returning
\* execute_crew_task hands back: the rendered document, the analysis and the
\* invoice dictionary. The job is running and its subscription is open.
run_completion ==
    /\ got.completion = NoCompletion
    /\ LET job == [NewJob(1, RequestOf(given)) EXCEPT !.status = Running]
           task == [NoTask EXCEPT !.pc = "complete_payment",
                                  !.result = "invoice.pdf", !.legal = "analysis",
                                  !.dict = AsRequest(RequestOf(given)).d]
           n == HandleNext(1, job, task, TRUE, given.o)
       IN  got' = [got EXCEPT !.completion =
                     [status |-> n.job.status, result |-> n.job.result,
                      error |-> n.job.error]]
    /\ UNCHANGED <<given, structured, rendered, jobs, payment_instances, monitoring,
                   subscribed, cb, calls, torn, last>>

PipelineNext ==
    \/ run_search
    \/ run_crew_task
    \/ run_completion

PipelineSpec == PipelineInit /\ [][PipelineNext]_vars

\* The event loop runs a coroutine that is ready to continue.
Fairness == \A j \in JobIds : \A k \in 1..MaxCallbacks :
                WF_vars(\E o \in Oracles : handle_payment_status(j, k, o))

FairSpec == Spec /\ Fairness

TypeOK ==
    /\ DOMAIN jobs \subseteq JobIds
    /\ payment_instances \subseteq DOMAIN jobs
    /\ monitoring \subseteq payment_instances

\* ------------------------------------------------------------------ claims
IsTerminal(st) == st \in {Completed, Failed}

\* The invocations of handle_payment_status for job j that have not returned.
InFlight(j) == {k \in 1..Len(cb[j]) : cb[j][k].pc # "done"}

\* The status graph of the specification.
SpecStatuses == {AwaitingPayment, Running, Completed, Failed}
SpecEdges ==
    {<<AwaitingPayment, Running>>, <<Running, Completed>>,
     <<Running, Failed>>, <<Completed, Running>>}

\* C1: a job's status is always one of awaiting_payment, running, completed,
\* failed, and every change of status is an edge of the status graph; in
\* particular a failed job never changes status again.
C1_StatusFollowsEdges ==
    [][\A j \in DOMAIN jobs' :
          /\ jobs'[j].status \in SpecStatuses
          /\ j \in DOMAIN jobs =>
                (jobs[j].status = jobs'[j].status
                 \/ <<jobs[j].status, jobs'[j].status>> \in SpecEdges)]_vars

C3_PipelineGatedOnPayment ==
    \A j \in JobIds : calls[j] # ZeroCalls => Len(cb[j]) > 0

\* provide_input has been called for a job that still awaits payment.
C3_Witness ==
    \E j \in DOMAIN jobs :
        /\ jobs[j].status = AwaitingPayment
        /\ Len(cb[j]) = 0
        /\ last.op = "provide_input" /\ last.job = j /\ last.code = 500
        /\ calls[j] = ZeroCalls

\* Errors that a failing collaborator call leaves on the job.
CollaboratorErrors == {ErrSearch, ErrUnpack, ErrIndex, ErrRender, ErrComplete}

\* C4: when the payment callback has run for a job that awaited payment and
\* no collaborator call failed, the job is completed, with a non-empty result
\* and its analysis stored.
C4_PaidJobCompletes ==
    \A j \in DOMAIN jobs :
        (/\ Len(cb[j]) = 1
         /\ cb[j][1].entry = AwaitingPayment
         /\ cb[j][1].pc = "done"
         /\ jobs[j].error \notin CollaboratorErrors)
        => /\ jobs[j].status = Completed
           /\ jobs[j].result # None
           /\ jobs[j].analysis # Missing

\* C5: once the callback has set the status to running, the job eventually
\* reaches completed or failed, and a job that failed carries the error.
C5_CallbackTerminates ==
    /\ \A j \in JobIds :
          (j \in DOMAIN jobs /\ jobs[j].status = Running)
          ~> (j \in DOMAIN jobs /\ IsTerminal(jobs[j].status))
    /\ [](\A j \in DOMAIN jobs : jobs[j].status = Failed => jobs[j].error # Missing)

\* A callback has returned and left its job failed with the error stored.
C5_Witness ==
    \E j \in DOMAIN jobs :
        /\ Len(cb[j]) > 0 /\ InFlight(j) = {}
        /\ jobs[j].status = Failed
        /\ jobs[j].error # Missing

\* C6: a job carries an error only if its status is failed.
C6_ErrorOnlyWhenFailed ==
    \A j \in DOMAIN jobs : jobs[j].error # Missing => jobs[j].status = Failed

\* C7: at most one pipeline execution per job is in flight: a callback for a
\* job starts only when no other invocation for that job is in flight, and
\* no pipeline stage runs for a job while an invocation other than the one
\* taking the step is in flight for it.
C7_OneExecutionInFlight ==
    [][\A j \in JobIds :
          /\ Len(cb'[j]) > Len(cb[j]) => InFlight(j) = {}
          /\ calls'[j] # calls[j] =>
                \A k \in InFlight(j) : cb'[j][k] # cb[j][k]]_vars

\* A second callback for a job is running after the first one returned.
C7_Witness ==
    \E j \in DOMAIN jobs :
        /\ Len(cb[j]) = 2
        /\ cb[j][1].pc = "done"
        /\ cb[j][2].pc = "execute"

\* C8: a provide_input call for a job never runs, and so never writes the
\* job's status or result, while a handle_payment_status invocation for that
\* job is between its entry and its last write (the awaited complete_payment
\* included).
C8_NoInterleavedWrites ==
    [][\A j \in DOMAIN jobs :
          (\/ (last'.op = "provide_input" /\ last'.job = j /\ cb' = cb)
           \/ (/\ cb'[j] = cb[j]
               /\ (jobs'[j].status # jobs[j].status
                   \/ jobs'[j].result # jobs[j].result)))
          => InFlight(j) = {}]_vars

\* provide_input has returned for a job whose callback has run.
C8_Witness ==
    \E j \in DOMAIN jobs :
        /\ Len(cb[j]) > 0
        /\ InFlight(j) = {}
        /\ last.op = "provide_input" /\ last.job = j

\* C9: the payment subscription of a job is torn down exactly once, when the
\* job first becomes completed or failed: never before, never twice, and it
\* is not left open once an invocation of the callback has returned.
C9_TornDownExactlyOnce ==
    \A j \in JobIds :
        /\ torn[j] = IF \E k \in 1..Len(cb[j]) : cb[j][k].pc = "done" THEN 1 ELSE 0
        /\ torn[j] = 1 => (j \notin payment_instances /\ j \notin monitoring)
        /\ (j \in DOMAIN jobs /\ IsTerminal(jobs[j].status)) => torn[j] = 1

\* The callback has fired twice for a job and both invocations returned.
C9_Witness ==
    \E j \in DOMAIN jobs :
        /\ Len(cb[j]) = 2
        /\ InFlight(j) = {}
        /\ jobs[j].status = Failed
        /\ torn[j] = 1

\* C10: provide_input keeps every stored field whose request value is empty
\* or the placeholder, and a request with only such values leaves the stored
\* record unchanged and still re-renders successfully.
C10_SparsePatch ==
    [][\A j \in DOMAIN jobs : \A req \in ProvideRequests :
          provide_input(j, req, AllOk) =>
             /\ \A f \in InvoiceFields :
                   req[f] \in {Empty, Placeholder} =>
                      jobs'[j].invoice_info.d[f] = jobs[j].invoice_info.d[f]
             /\ (\A f \in InvoiceFields : req[f] \in {Empty, Placeholder}) =>
                   /\ jobs'[j].invoice_info = jobs[j].invoice_info
                   /\ last'.code = 200
                   /\ last'.result # None]_vars

\* C11: provide_input with exactly one concrete (non-empty, non-placeholder)
\* invoice field stores that value under that field of the job's record and
\* leaves every other key of the record as it was: none changed, none added,
\* none removed.
C11_OneFieldPatch ==
    [][\A j \in DOMAIN jobs : \A req \in ProvideRequests : \A f \in InvoiceFields :
          ( /\ provide_input(j, req, AllOk)
            /\ req[f] \notin {Empty, Placeholder}
            /\ \A g \in InvoiceFields \ {f} : req[g] \in {Empty, Placeholder} )
          => /\ jobs'[j].invoice_info.d[f] = req[f]
             /\ \A k \in DictKeys \ {f} :
                   jobs'[j].invoice_info.d[k] = jobs[j].invoice_info.d[k]]_vars

\* C12: the regulation lookup runs at most once for a job over its whole
\* life: no step takes a job's count of lookups above one, and a provide_input
\* step leaves the count as it was.
C12_LookupAtMostOnce ==
    [][\A j \in JobIds :
          /\ calls'[j].search <= 1
          /\ (last'.op = "provide_input" /\ last'.job = j /\ cb' = cb)
                => calls'[j].search = calls[j].search]_vars

\* The callback of a job has fired twice, both invocations have returned and
\* provide_input has been called for the job afterwards.
C12_Witness ==
    \E j \in DOMAIN jobs :
        /\ Len(cb[j]) = MaxCallbacks
        /\ InFlight(j) = {}
        /\ last.op = "provide_input"
        /\ last.job = j
        /\ calls[j].search <= 1

\* C13: once the payment-triggered run of a job that awaited payment has
\* returned without a failing collaborator call, the job's regulatory context
\* (legal_analysis, the value line 485 hands to the structuring stage) is
\* set, and a regulatory context that is set never changes afterwards.
C13_RegulatoryContextSetOnce ==
    [][\A j \in DOMAIN jobs :
          /\ ( /\ Len(cb'[j]) >= 1
               /\ cb'[j][1].entry = AwaitingPayment
               /\ cb'[j][1].pc = "done"
               /\ jobs'[j].error \notin CollaboratorErrors )
             => jobs'[j].legal_analysis # None
          /\ jobs[j].legal_analysis # None
             => jobs'[j].legal_analysis = jobs[j].legal_analysis]_vars

C15_CompletionSignalFinalizes ==
    [][\A j \in DOMAIN jobs : \A req \in ProvideRequests :
          ( /\ provide_input(j, req, AllOk)
            /\ \E f \in InvoiceFields : req[f] = CompletionSignal )
          => /\ jobs'[j].status = Completed
             /\ calls'[j] = calls[j]]_vars

\* C16: a get_status call changes no job's status, result, analysis or input
\* record (neither the stored request nor the invoice dictionary), whatever
\* the gate answers; and a step that makes a job completed is a step of the
\* payment callback's handler.
C16_GetStatusReadOnly ==
    [][/\ \A j \in JobIds : \A ans \in GateAnswers :
             get_status(j, ans) =>
                \A i \in DOMAIN jobs :
                   /\ jobs'[i].status = jobs[i].status
                   /\ jobs'[i].result = jobs[i].result
                   /\ jobs'[i].analysis = jobs[i].analysis
                   /\ jobs'[i].invoice_info = jobs[i].invoice_info
                   /\ jobs'[i].input_data = jobs[i].input_data
       /\ \A i \in DOMAIN jobs :
             (jobs'[i].status = Completed /\ jobs[i].status # Completed)
                => \E k \in 1..Len(cb[i]) :
                      cb[i][k].pc = "complete_payment" /\ cb'[i][k].pc = "done"]_vars

\* get_status has answered that the gate reports the payment as completed
\* for a job that still awaits payment or is running.
C16_Witness ==
    /\ last.op = "get_status"
    /\ last.code = 200
    /\ last.payment_status = "completed"
    /\ last.job \in DOMAIN jobs
    /\ jobs[last.job].status \in {AwaitingPayment, Running}
    /\ last.status = jobs[last.job].status

\* C17: when the gate's status check made by get_status raises, get_status
\* still answers normally, with payment_status "unknown" for a ValueError and
\* "error" for any other exception, and the job's own status is unchanged.
C17_DegradedPaymentStatus ==
    [][\A j \in DOMAIN jobs : \A ans \in {"ValueError", "Exception"} :
          (get_status(j, ans) /\ j \in payment_instances)
          => /\ last'.code = 200
             /\ last'.payment_status = IF ans = "ValueError" THEN "unknown" ELSE "error"
             /\ jobs'[j].status = jobs[j].status
             /\ last'.status = jobs[j].status]_vars

\* get_status has answered normally with the degraded value "unknown" for a
\* job whose subscription is still open.
C17_Witness ==
    /\ last.op = "get_status"
    /\ last.code = 200
    /\ last.payment_status = "unknown"
    /\ last.job \in payment_instances

\* C18: whenever start_job returns successfully, the job table holds a job
\* that was not there before under the returned job id, with status awaiting
\* payment, an empty result and the returned payment reference, and a payment
\* subscription is registered under that job id whose callback acts on that
\* job; the callback has not been invoked yet.
C18_StartJobRegisters ==
    [][\A data \in StartRequests : \A pay \in {"ok", "raise"} : \A mon \in {"ok", "raise"} :
          (start_job(data, pay, mon) /\ last'.code = 200)
          => LET j == last'.job IN
             /\ j \notin DOMAIN jobs
             /\ j \in DOMAIN jobs'
             /\ jobs'[j].status = AwaitingPayment
             /\ jobs'[j].result = None
             /\ jobs'[j].payment_id = last'.payment_id
             /\ jobs'[j].input_data = data
             /\ j \in payment_instances'
             /\ j \in monitoring'
             /\ j \in subscribed'
             /\ Len(cb'[j]) = 0
             /\ \A i \in DOMAIN jobs : jobs'[i] = jobs[i]]_vars

\* start_job has just answered successfully: its job awaits payment, with the
\* subscription registered and no callback delivered.
C18_Witness ==
    /\ last.op = "start_job"
    /\ last.code = 200
    /\ last.job \in DOMAIN jobs
    /\ jobs[last.job].status = AwaitingPayment
    /\ jobs[last.job].payment_id = last.payment_id
    /\ last.job \in subscribed
    /\ Len(cb[last.job]) = 0

\* C19: whenever start_job answers with a client error, the job table and
\* the table of payment subscriptions are as they were before the call.
C19_ClientErrorCreatesNothing ==
    [][\A data \in StartRequests : \A pay \in {"ok", "raise"} : \A mon \in {"ok", "raise"} :
          (start_job(data, pay, mon) /\ last'.code = 400)
          => /\ jobs' = jobs
             /\ payment_instances' = payment_instances]_vars

\* C20: when the structuring stage returns a record whose lists differ in
\* length, the step from structuring to rendering fails without invoking the
\* renderer for that record.
C20_MismatchRejectedBeforeRender ==
    ( /\ rendered # NotRendered
      /\ structured.structure = "ok"
      /\ LensOf(structured.record) # "equal" )
    => /\ rendered.raised
       /\ rendered.render = 0

\* C21: when the regulation lookup fails (the search or the scrape raises) or
\* finds nothing, search_invoice_regulations returns empty content instead of
\* raising, and execute_crew_task goes on to the cleaning stage and does not
\* end with the lookup's error.
C21_LookupFailureNotFatal ==
    (given.o.search = "raise" \/ given.o.organic = 0)
    => /\ got.search # NoSearch
          => (~got.search.raised /\ got.search.content = <<>>)
       /\ got.task # NoCrew
          => (got.task.calls.clean = 1 /\ got.task.err # ErrSearch)

\* C22: when run_analysis fails, the step from structuring to rendering
\* raises, and the job that the handler's except branch leaves is failed with
\* the structuring stage's own message as its error.
C22_StructuringErrorVerbatim ==
    (rendered # NotRendered /\ structured.structure = "error")
    => /\ rendered.raised
       /\ Except(NewJob(1, RequestOf(NoneGiven)), rendered.err).status = Failed
       /\ Except(NewJob(1, RequestOf(NoneGiven)), rendered.err).error = ErrStructure

\* C23: with no failing search, search_invoice_regulations issues exactly
\* one query when the two countries are equal and returns the content scraped
\* from that query's result links; when they differ it issues exactly two
\* queries and the content is the sender's followed by the recipient's.
C23_OneQueryForSameCountry ==
    (got.search # NoSearch /\ given.o.search = "ok")
    => /\ ~got.search.raised
       /\ got.search.queries = IF given.sender = given.recipient THEN 1 ELSE 2
       /\ got.search.content =
             IF given.o.organic = 0 THEN <<>>
             ELSE IF given.sender = given.recipient THEN <<given.sender>>
             ELSE <<given.sender, given.recipient>>

\* C24: in one run of execute_crew_task every stage is called at most once
\* and only after the stage before it has been called and has returned:
\* cleaning only after a lookup that returned, structuring only after
\* cleaning, rendering only after a structuring call that returned a record.
C24_StagesInOrder ==
    got.task # NoCrew
    => LET c == got.task.calls IN
       /\ c.search <= 1
       /\ c.clean <= c.search
       /\ c.structure <= c.clean
       /\ c.render <= c.structure
       /\ c.clean = 1 =>
             ~search_invoice_regulations(given.sender, given.recipient, given.o).raised
       /\ c.render = 1 => given.o.structure = "ok"

\* A run of execute_crew_task in which the lookup returned and the cleaning
\* stage was called after it.
C24_Witness ==
    /\ got.task # NoCrew
    /\ got.task.calls.search = 1
    /\ got.task.calls.clean = 1

\* Job b has the same attributes after a step as before it: its record (or
\* its absence), its payment subscription, the invocations of its callback
\* and its collaborator calls.
SameJob(b) ==
    /\ (b \in DOMAIN jobs') = (b \in DOMAIN jobs)
    /\ b \in DOMAIN jobs => jobs'[b] = jobs[b]
    /\ (b \in payment_instances') = (b \in payment_instances)
    /\ (b \in monitoring') = (b \in monitoring)
    /\ (b \in subscribed') = (b \in subscribed)
    /\ cb'[b] = cb[b]
    /\ calls'[b] = calls[b]
    /\ torn'[b] = torn[b]

\* C25: an operation on one job changes no attribute of any other job:
\* start_job leaves every job that existed as it was; get_status and
\* provide_input (the steps that answer a request and leave the callbacks
\* alone) leave every job but the one they were called for as it was; and a
\* step of the callback or the handler of job a (the steps that change the
\* invocations of a's callback) leaves every job b # a as it was.
C25_JobsIsolated ==
    [][/\ (cb' = cb /\ last'.op = "start_job")
          => \A b \in DOMAIN jobs : SameJob(b)
       /\ (cb' = cb /\ last'.op \in {"get_status", "provide_input"})
          => \A b \in JobIds \ {last'.job} : SameJob(b)
       /\ \A a \in JobIds :
             cb'[a] # cb[a] => \A b \in JobIds \ {a} : SameJob(b)]_vars

\* Two jobs exist: the callback of the first has run and left it failed,
\* while the second still awaits payment after an operation on it.
C25_Witness ==
    /\ DOMAIN jobs = {1, 2}
    /\ jobs[1].status = Failed
    /\ jobs[2].status = AwaitingPayment
    /\ last.job = 2
    /\ last.op \in {"get_status", "provide_input"}

\* C26: provide_input for a job id that is not in the job table answers
\* with the error outcome, runs no pipeline stage and leaves the job table
\* and the subscription tables unchanged; get_status for such an id answers
\* not found and changes nothing either.
C26_UnknownJobChangesNothing ==
    [][\A j \in JobIds \ DOMAIN jobs :
          /\ (\E req \in ProvideRequests : \E o \in Oracles : provide_input(j, req, o))
             => /\ last'.code = 200
                /\ last'.status = "error"
                /\ last'.result = None
                /\ calls' = calls
                /\ jobs' = jobs
                /\ payment_instances' = payment_instances
                /\ subscribed' = subscribed
          /\ (\E ans \in GateAnswers : get_status(j, ans))
             => /\ last'.code = 404
                /\ calls' = calls
                /\ jobs' = jobs
                /\ payment_instances' = payment_instances
                /\ subscribed' = subscribed]_vars

\* provide_input has just answered with the error outcome for a job id that
\* is not in the job table, while another job exists.
C26_Witness ==
    /\ last.op = "provide_input"
    /\ last.status = "error"
    /\ last.job \in JobIds \ DOMAIN jobs
    /\ DOMAIN jobs # {}

\* C27: get_status called for a job that is in the job table answers
\* successfully, with the job's status and a payment status, in every
\* reachable state.
C27_GetStatusAlwaysAnswers ==
    [][\A j \in DOMAIN jobs : \A ans \in GateAnswers :
          get_status(j, ans)
          => /\ last'.code = 200
             /\ last'.status = jobs[j].status
             /\ last'.payment_status # Missing]_vars

\* C28: provide_input on a job whose invoice_info is not stored yet (a step
\* that answers a provide_input request for the job) fails before any
\* pipeline stage is called and leaves the job's status, result, analysis and
\* invoice_info as they were.
C28_NoInvoiceInfoFailsEarly ==
    [][\A j \in DOMAIN jobs :
          ( /\ jobs[j].invoice_info = NoInfo
            /\ last'.op = "provide_input" /\ last'.job = j /\ cb' = cb )
          => /\ last'.code = 500
             /\ calls'[j] = calls[j]
             /\ jobs'[j].status = jobs[j].status
             /\ jobs'[j].result = jobs[j].result
             /\ jobs'[j].analysis = jobs[j].analysis
             /\ jobs'[j].invoice_info = jobs[j].invoice_info]_vars

\* provide_input has just failed with the TypeError of line 452 on a job
\* that awaits payment and holds no invoice_info.
C28_Witness ==
    /\ last.op = "provide_input"
    /\ last.code = 500
    /\ last.status = ErrSubscript
    /\ last.job \in DOMAIN jobs
    /\ jobs[last.job].invoice_info = NoInfo
    /\ jobs[last.job].status = AwaitingPayment

\* C29: the handler makes the job completed only when complete_payment has
\* returned successfully, storing the rendered document as the result; when
\* complete_payment fails the job is failed with that error and its result
\* stays unset, although the document had been rendered.
C29_CompletedOnlyAfterPaymentCompleted ==
    got.completion # NoCompletion
    => /\ got.completion.status = Completed
          => (given.o.complete = "ok" /\ got.completion.result = "invoice.pdf")
       /\ given.o.complete = "raise"
          => /\ got.completion.status = Failed
             /\ got.completion.result = None
             /\ got.completion.error = ErrComplete

\* complete_payment has failed after the document was rendered: the job is
\* failed and holds no result.
C29_Witness ==
    /\ given.o.complete = "raise"
    /\ got.completion.status = Failed
    /\ got.completion.result = None

====
